---- MODULE Spec2Model ----
(***************************************************************************)
(* Model of spinup/examples/pytorch/pg_math/1_simple_pg.py: train() with   *)
(* its nested train_one_epoch() batch collector, the environment it        *)
(* drives (gymnasium reset/step, with a TimeLimit-style truncation flag)   *)
(* and the Adam optimizer it steps.                                        *)
(*                                                                         *)
(* Abstractions, all stated here:                                          *)
(*  - an observation is the pair (episode number, step in the episode) of  *)
(*    the environment state it was read from;                              *)
(*  - the policy network is one scalar parameter theta; the action that    *)
(*    get_action samples and the gradient that backward() produces are     *)
(*    nondeterministic choices over small sets;                            *)
(*  - Adam keeps its first moment exactly (scaled by 10^step, beta1 = 0.9);*)
(*    the size of its update is one unit of lr in the direction of the     *)
(*    first moment (the denominator sqrt(v)+eps is positive);              *)
(*  - render is left out: env.render() changes none of the modelled state. *)
(***************************************************************************)
EXTENDS Integers, Sequences, FiniteSets, TLC

\* ---------------------------------------------------------------- bounds
MaxEpochs == 2
MaxBatch == 1
MaxEpLen == 2
\* cap on the steps of one collection pass: batch_size + MaxEpLen steps
\* are enough to see a loop that has not stopped by then
StepCap(bs) == bs + MaxEpLen

Acts == {0, 1}
Rewards == {0, 1}
LRs == {0, 1}
\* gradients of one batch loss; 10 followed by -19 accumulates to -9,
\* which cancels Adam's first moment (0.9 * 0.1 * 10 + 0.1 * (-9) = 0)
Grads == {-19, 0, 1, 10}

VARIABLES
    pc,               \* position in train()
    epochs, batch_size, lr,          \* arguments of train()
    obsIsBox, actIsDiscrete,         \* isinstance results of the two spaces
    netCreated, optCreated,          \* logits_net / optimizer exist
    i,                \* loop variable of "for i in range(epochs)"
    theta,            \* policy parameters (logits_net.parameters())
    theta0,           \* history: parameters as initialised by mlp()
    pgrad,            \* .grad of the parameters
    batch_grad,       \* history: gradient of the current epoch's batch loss
    exp_avg,          \* Adam first moment, times 10^adam_step
    adam_step,        \* Adam state['step']
    envEp, envT,      \* environment: resets in this pass, steps since reset
    envTerminated,    \* environment: last step terminated, no reset since
    resetCalled, stepCalled,   \* history: env.reset / env.step were called
    obs,              \* local obs of train_one_epoch
    batch_obs, batch_acts, batch_weights, batch_rets, batch_lens, ep_rews,
    rew_log,          \* history: reward returned for each recorded step
    term_log,         \* history: terminated flag returned for each step
    last_trunc,       \* history: truncated flag of the latest env.step
    nCollect, nLoss, nOpt, nReport   \* history: operations performed

cfgVars == <<epochs, batch_size, lr, obsIsBox, actIsDiscrete>>
netVars == <<netCreated, optCreated, theta, theta0>>
optVars == <<pgrad, batch_grad, exp_avg, adam_step>>
envVars == <<envEp, envT, envTerminated, resetCalled, stepCalled>>
batchVars == <<obs, batch_obs, batch_acts, batch_weights, batch_rets,
               batch_lens, ep_rews, rew_log, term_log, last_trunc>>
cntVars == <<nCollect, nLoss, nOpt, nReport>>
vars == <<pc, i, cfgVars, netVars, optVars, envVars, batchVars, cntVars>>

\* ------------------------------------------------------- pure operators
RECURSIVE SumSeq(_)
\* Python sum() of a list
SumSeq(s) == IF s = <<>> THEN 0 ELSE s[1] + SumSeq(Tail(s))

Sign(x) == IF x > 0 THEN 1 ELSE IF x < 0 THEN -1 ELSE 0

RECURSIVE Pow10(_)
Pow10(n) == IF n = 0 THEN 1 ELSE 10 * Pow10(n - 1)

\* the two assertions of train()
SpacesOK_onlyObs(box, disc) == box
SpacesOK(box, disc) == box /\ disc

\* "for i in range(epochs)": is there another iteration
EpochLoopContinues_offByOne(k, n) == k <= n
EpochLoopContinues(k, n) == k < n

\* "if done:" where done is the third value returned by env.step
Done_orTruncated(terminated, truncated) == terminated \/ truncated
Done(terminated, truncated) == terminated

\* "batch_weights += [ep_ret] * ep_len" with ep_ret, ep_len = sum, len
EpisodeWeights_rewardToGo(rews) ==
    [k \in 1 .. Len(rews) |-> SumSeq(SubSeq(rews, k, Len(rews)))]
EpisodeWeights(rews) ==
    LET ep_ret == SumSeq(rews)
        ep_len == Len(rews)
    IN  [k \in 1 .. ep_len |-> ep_ret]

\* "if len(batch_obs) > batch_size: break"
EnoughExperience_atLeast(n, bs) == n >= bs
EnoughExperience(n, bs) == n > bs

\* the loop leaves through the break nested in "if done:" (lines 90, 105-106)
BreakLoop_unnested(d, n, bs) == EnoughExperience(n, bs)
BreakLoop(d, n, bs) == d /\ EnoughExperience(n, bs)

\* gymnasium TimeLimit: truncated once the elapsed steps reach the limit
Truncated(elapsed) == elapsed >= MaxEpLen

\* gradients backward() can produce for a batch: the loss is
\* -(logp * weights).mean(), so all-zero weights give a zero gradient
GradsOf(weights) ==
    IF \A k \in 1 .. Len(weights) : weights[k] = 0 THEN {0} ELSE Grads

\* Adam first moment after one more step, scaled by 10^(step+1):
\* m' = 0.9 m + 0.1 g
AdamMoment(m, step, g) == 9 * m + Pow10(step) * g

\* Adam parameter update: theta - lr * m_hat / (sqrt(v_hat) + eps)
AdamUpdate_ignoresLr(th, rate, m) == th - Sign(m)
AdamUpdate(th, rate, m) == th - rate * Sign(m)

\* ------------------------------------------------------------------ Init
Init ==
    /\ pc = "start"
    /\ epochs \in 0 .. MaxEpochs
    /\ batch_size \in 1 .. MaxBatch
    /\ lr \in LRs
    /\ obsIsBox \in BOOLEAN
    /\ actIsDiscrete \in BOOLEAN
    /\ netCreated = FALSE /\ optCreated = FALSE
    /\ i = 0
    /\ theta = 0 /\ theta0 = 0
    /\ pgrad = 0 /\ batch_grad = 0 /\ exp_avg = 0 /\ adam_step = 0
    /\ envEp = 0 /\ envT = 0 /\ envTerminated = FALSE
    /\ resetCalled = FALSE /\ stepCalled = FALSE
    /\ obs = [pass |-> 0, ep |-> 0, t |-> 0]
    /\ batch_obs = <<>> /\ batch_acts = <<>> /\ batch_weights = <<>>
    /\ batch_rets = <<>> /\ batch_lens = <<>> /\ ep_rews = <<>>
    /\ rew_log = <<>> /\ term_log = <<>> /\ last_trunc = FALSE
    /\ nCollect = 0 /\ nLoss = 0 /\ nOpt = 0 /\ nReport = 0

\* --------------------------------------------------------------- actions
\* train() lines 26-56, spaces accepted: network and optimizer are made
Setup ==
    /\ pc = "start"
    /\ SpacesOK(obsIsBox, actIsDiscrete)
    /\ netCreated' = TRUE /\ optCreated' = TRUE
    /\ theta' = 0 /\ theta0' = 0
    /\ pc' = "loop"
    /\ UNCHANGED <<i, cfgVars, optVars, envVars, batchVars, cntVars>>

\* train() lines 28-31, an assertion fails
AssertFail ==
    /\ pc = "start"
    /\ ~ SpacesOK(obsIsBox, actIsDiscrete)
    /\ pc' = "aborted"
    /\ UNCHANGED <<i, cfgVars, netVars, optVars, envVars, batchVars, cntVars>>

\* (variant: the lists made once, outside train_one_epoch)
BeginEpoch_keepLists ==
    /\ pc = "loop"
    /\ EpochLoopContinues(i, epochs)
    /\ ep_rews' = <<>> /\ last_trunc' = FALSE
    /\ envEp' = 1 /\ envT' = 0 /\ envTerminated' = FALSE
    /\ resetCalled' = TRUE
    /\ obs' = [pass |-> nCollect + 1, ep |-> 1, t |-> 0]
    /\ nCollect' = nCollect + 1
    /\ pc' = "collect"
    /\ UNCHANGED <<i, cfgVars, netVars, optVars, stepCalled, batch_obs,
                   batch_acts, batch_weights, batch_rets, batch_lens,
                   rew_log, term_log, nLoss, nOpt, nReport>>

\* line 117 enters train_one_epoch; lines 61-72: fresh lists, env.reset()
BeginEpoch ==
    /\ pc = "loop"
    /\ EpochLoopContinues(i, epochs)
    /\ batch_obs' = <<>> /\ batch_acts' = <<>> /\ batch_weights' = <<>>
    /\ batch_rets' = <<>> /\ batch_lens' = <<>> /\ ep_rews' = <<>>
    /\ rew_log' = <<>> /\ term_log' = <<>> /\ last_trunc' = FALSE
    /\ envEp' = 1 /\ envT' = 0 /\ envTerminated' = FALSE
    /\ resetCalled' = TRUE
    /\ obs' = [pass |-> nCollect + 1, ep |-> 1, t |-> 0]
    /\ nCollect' = nCollect + 1
    /\ pc' = "collect"
    /\ UNCHANGED <<i, cfgVars, netVars, optVars, stepCalled,
                   nLoss, nOpt, nReport>>

\* one iteration of "while True", lines 75-106
CollectStep ==
    /\ pc = "collect"
    /\ Len(batch_obs) < StepCap(batch_size)
    /\ \E act \in Acts, reward \in Rewards, terminated \in BOOLEAN :
         LET truncated == Truncated(envT + 1)
             rews == Append(ep_rews, reward)
             n == Len(batch_obs) + 1
         IN  /\ batch_obs' = Append(batch_obs, obs)
             /\ batch_acts' = Append(batch_acts, act)
             /\ rew_log' = Append(rew_log, reward)
             /\ term_log' = Append(term_log, terminated)
             /\ last_trunc' = truncated
             /\ stepCalled' = TRUE
             /\ pc' = IF BreakLoop(Done(terminated, truncated), n, batch_size)
                      THEN "loss" ELSE "collect"
             /\ IF Done(terminated, truncated)
                THEN /\ batch_rets' = Append(batch_rets, SumSeq(rews))
                     /\ batch_lens' = Append(batch_lens, Len(rews))
                     /\ batch_weights' = batch_weights \o EpisodeWeights(rews)
                     /\ envEp' = envEp + 1 /\ envT' = 0
                     /\ envTerminated' = FALSE
                     /\ obs' = [pass |-> nCollect, ep |-> envEp + 1, t |-> 0]
                     /\ ep_rews' = <<>>
                ELSE /\ envT' = envT + 1
                     /\ envTerminated' = terminated
                     /\ obs' = [pass |-> nCollect, ep |-> envEp, t |-> envT + 1]
                     /\ ep_rews' = rews
                     /\ UNCHANGED <<batch_rets, batch_lens, batch_weights,
                                    envEp>>
    /\ UNCHANGED <<i, cfgVars, netVars, optVars, resetCalled, cntVars>>

\* lines 108-111: compute_loss on the collected batch
ComputeLoss ==
    /\ pc = "loss"
    /\ nLoss' = nLoss + 1
    /\ pc' = "backward"
    /\ UNCHANGED <<i, cfgVars, netVars, optVars, envVars, batchVars,
                   nCollect, nOpt, nReport>>

\* line 112: batch_loss.backward() adds the gradient into .grad
Backward ==
    /\ pc = "backward"
    /\ \E g \in GradsOf(batch_weights) :
         /\ batch_grad' = g
         /\ pgrad' = pgrad + g
    /\ pc' = "step"
    /\ UNCHANGED <<i, cfgVars, netVars, exp_avg, adam_step, envVars,
                   batchVars, cntVars>>

\* line 113: optimizer.step()
OptimizerStep ==
    /\ pc = "step"
    /\ exp_avg' = AdamMoment(exp_avg, adam_step, pgrad)
    /\ adam_step' = adam_step + 1
    /\ theta' = AdamUpdate(theta, lr, exp_avg')
    /\ nOpt' = nOpt + 1
    /\ pc' = "report"
    /\ UNCHANGED <<i, cfgVars, netCreated, optCreated, theta0, pgrad,
                   batch_grad, envVars, batchVars, nCollect, nLoss, nReport>>

\* lines 114, 119-120: return, print the epoch line, next i
Report ==
    /\ pc = "report"
    /\ nReport' = nReport + 1
    /\ i' = i + 1
    /\ pc' = "loop"
    /\ UNCHANGED <<cfgVars, netVars, optVars, envVars, batchVars,
                   nCollect, nLoss, nOpt>>

\* line 117: range(epochs) exhausted, train() returns
Finish ==
    /\ pc = "loop"
    /\ ~ EpochLoopContinues(i, epochs)
    /\ pc' = "done"
    /\ UNCHANGED <<i, cfgVars, netVars, optVars, envVars, batchVars, cntVars>>

Next ==
    \/ Setup
    \/ AssertFail
    \/ BeginEpoch
    \/ CollectStep
    \/ ComputeLoss
    \/ Backward
    \/ OptimizerStep
    \/ Report
    \/ Finish

Spec == Init /\ [][Next]_vars

\* --------------------------------------------------- helpers of the claims
N == Len(batch_obs)

\* the loop has stopped and the batch has not been replaced yet
BatchCollected == pc \in {"loss", "backward", "step", "report"}

RECURSIVE EpisodeRewardSum(_, _)
\* sum of the rewards the environment returned in episode e, over the
\* first k recorded steps
EpisodeRewardSum(e, k) ==
    IF k = 0 THEN 0
    ELSE (IF batch_obs[k].ep = e THEN rew_log[k] ELSE 0)
         + EpisodeRewardSum(e, k - 1)

\* the transition is one iteration of the collection loop
IsCollectStep == pc = "collect" /\ Len(term_log') = Len(term_log) + 1

\* the transition is optimizer.step()
IsOptimizerStep == pc = "step" /\ pc' = "report"

\* ------------------------------------------------------------------- C1
\* C1: at the end of every batch collection each recorded step has a
\* weight, and it is the sum of all rewards the environment returned in
\* that step's own episode.
C1_WeightIsEpisodeReturn ==
    BatchCollected =>
        /\ Len(batch_weights) = N
        /\ Len(rew_log) = N
        /\ \A j \in 1 .. N :
             batch_weights[j] = EpisodeRewardSum(batch_obs[j].ep, N)

\* two episodes with different returns, one of them with two rewarded steps
C1_Witness ==
    /\ pc = "loss"
    /\ Len(batch_rets) >= 2
    /\ batch_rets[1] # batch_rets[2]
    /\ \E j \in 1 .. N : batch_weights[j] = 2 /\ rew_log[j] = 1

\* ------------------------------------------------------------------- C2
\* C2: the gradient optimizer.step() consumes is the gradient of the
\* current epoch's batch loss alone.
C2_StepUsesBatchGradient ==
    pc = "step" => pgrad = batch_grad

\* ------------------------------------------------------------------- C3
\* C3 as stated: the loop stops at an episode end, and the number of steps
\* collected is the first episode end at or after batch_size.
C3_FirstBoundaryAtOrAfter ==
    pc = "loss" =>
        /\ N >= 1 /\ Len(term_log) = N /\ term_log[N]
        /\ ep_rews = <<>>
        /\ N >= batch_size
        /\ \A k \in 1 .. (N - 1) : term_log[k] => k < batch_size

\* C3 as amended: the loop stops at an episode end, and the number of
\* steps collected is the first episode end strictly after batch_size; an
\* episode end on exactly batch_size steps does not stop the loop.
C3_FirstBoundaryStrictlyAfter ==
    pc = "loss" =>
        /\ N >= 1 /\ Len(term_log) = N /\ term_log[N]
        /\ ep_rews = <<>>
        /\ N > batch_size
        /\ \A k \in 1 .. (N - 1) : term_log[k] => k <= batch_size

\* an episode ended on exactly batch_size steps and the loop went on
C3_Witness ==
    /\ pc = "loss"
    /\ \E k \in 1 .. (N - 1) : term_log[k] /\ k = batch_size

\* ------------------------------------------------------------------- C4
\* C4: the loop is left only by a step that ended an episode and only
\* with more than batch_size recorded steps, every recorded step then has
\* its weight, and where the loss is computed the batch has at least
\* batch_size steps.
C4_ExitOnlyAtEpisodeEnd ==
    /\ [][(pc = "collect" /\ pc' # "collect") =>
            /\ pc' = "loss"
            /\ term_log'[Len(term_log')]
            /\ Len(batch_lens') = Len(batch_lens) + 1
            /\ Len(batch_obs') > batch_size
            /\ ep_rews' = <<>>
            /\ Len(batch_weights') = Len(batch_obs')]_vars
    /\ [](pc = "loss" => (N >= batch_size /\ Len(batch_weights) = N))

\* the loop went past batch_size inside an episode and left at its end
C4_Witness ==
    /\ pc = "loss"
    /\ N > batch_size + 1
    /\ batch_lens[Len(batch_lens)] >= 2

\* ------------------------------------------------------------------- C5
\* per-epoch order collect -> loss -> optimizer step -> report, at most
\* epochs times, and exactly epochs times when train returns
C5_CountsAndOrder ==
    /\ nReport <= nOpt /\ nOpt <= nLoss /\ nLoss <= nCollect
    /\ nCollect <= nReport + 1
    /\ nCollect <= epochs
    /\ nReport = i
    /\ (pc = "collect" \/ pc = "loss") =>
           (nCollect = i + 1 /\ nLoss = i /\ nOpt = i)
    /\ pc = "backward" => (nLoss = i + 1 /\ nOpt = i)
    /\ pc = "step" => (nLoss = i + 1 /\ nOpt = i)
    /\ pc = "report" => nOpt = i + 1
    /\ pc = "done" =>
           (nCollect = epochs /\ nLoss = epochs /\ nOpt = epochs
            /\ nReport = epochs)

\* the parameters change only in optimizer.step()
C5_OnlyStepChangesTheta ==
    [][theta' # theta => (IsOptimizerStep /\ nOpt' = nOpt + 1)]_vars

C6_ZeroLrKeepsTheta ==
    lr = 0 => theta = theta0

\* two optimizer steps were taken with lr = 0, the second one on a
\* gradient that carries the first epoch's gradient
C6_Witness ==
    /\ lr = 0 /\ nOpt = 2
    /\ pgrad # 0 /\ pgrad # batch_grad /\ exp_avg # 0

\* ------------------------------------------------------------------- C7
\* C7: when a space check fails train aborts and nothing else happens:
\* no network, no optimizer, no env.reset, no env.step, no optimizer step,
\* no epoch line.
C7_AbortBeforeTraining ==
    (~ (obsIsBox /\ actIsDiscrete)) =>
        /\ pc \in {"start", "aborted"}
        /\ ~ netCreated /\ ~ optCreated
        /\ ~ resetCalled /\ ~ stepCalled
        /\ nCollect = 0 /\ nLoss = 0 /\ nOpt = 0 /\ nReport = 0
        /\ theta = theta0

\* aborted on the action space alone
C7_Witness ==
    pc = "aborted" /\ obsIsBox /\ ~ actIsDiscrete

\* ------------------------------------------------------------------- C8
\* C8: the batch handed to the loss is one or more complete episodes of
\* the current pass: equal list lengths, equal to the sum of the episode
\* lengths, as many returns as lengths (at least one), every step read in
\* this pass starting from a fresh reset; a pass starts with empty lists.
C8_BatchIsCompleteEpisodes ==
    /\ [](pc = "loss" =>
            /\ Len(batch_acts) = N /\ Len(batch_weights) = N
            /\ N = SumSeq(batch_lens)
            /\ Len(batch_rets) = Len(batch_lens)
            /\ Len(batch_lens) >= 1
            /\ ep_rews = <<>>
            /\ \A k \in 1 .. N : batch_obs[k].pass = nCollect
            /\ batch_obs[1].ep = 1 /\ batch_obs[1].t = 0
            /\ batch_obs[N].ep = Len(batch_lens)
            /\ \A k \in 2 .. N :
                 \/ /\ batch_obs[k].ep = batch_obs[k - 1].ep
                    /\ batch_obs[k].t = batch_obs[k - 1].t + 1
                 \/ /\ batch_obs[k].ep = batch_obs[k - 1].ep + 1
                    /\ batch_obs[k].t = 0
            /\ \A e \in 1 .. Len(batch_lens) :
                 Cardinality({k \in 1 .. N : batch_obs[k].ep = e})
                     = batch_lens[e])
    /\ [][(pc = "loop" /\ pc' = "collect") =>
            /\ batch_obs' = <<>> /\ batch_acts' = <<>>
            /\ batch_weights' = <<>> /\ batch_rets' = <<>>
            /\ batch_lens' = <<>> /\ ep_rews' = <<>>
            /\ obs'.t = 0 /\ obs'.pass = nCollect']_vars

\* the second pass hands over a batch of two episodes
C8_Witness ==
    /\ pc = "loss" /\ nCollect = 2
    /\ Len(batch_lens) = 2 /\ N >= 3

\* ------------------------------------------------------------------- C9
\* C9: a collection pass exits its loop once enough experience is there.
\* Every episode of the environment signals that it is over (terminated
\* or truncated) within MaxEpLen steps of its reset, so a loop that ends
\* episodes on that signal is never still collecting with
\* batch_size + MaxEpLen steps recorded.
C9_CollectionExits ==
    pc = "collect" => N < batch_size + MaxEpLen

====
